---- MODULE Spec2Model ----
(***************************************************************************)
(* A model of CyberSapiens.py: the media downloader's URL helpers          *)
(* (get_youtube_id, is_video_url, is_image_url), its two download          *)
(* functions (download_video, download_image) and the part of main() that  *)
(* drives them and shows their result.                                     *)
(*                                                                         *)
(* Spec          the download session: main()'s two download buttons, the  *)
(*               two download functions and the progress values.           *)
(* SpecUrl       is_video_url / is_image_url / main()'s dispatch and       *)
(*               get_youtube_id applied to URL strings.                    *)
(***************************************************************************)
EXTENDS Integers, Sequences, FiniteSets, TLC

VARIABLES
    \* ---- program state -------------------------------------------------
    pc,            \* position of the script: idle, inside a download, ...
    kind,          \* which download button started the current task
    progress,      \* st.session_state.progress (an exact fraction)
    progress_bar,  \* the value shown by main()'s progress_bar widget
    result,        \* the (success, message) pair a download returned
    uncaught,      \* an exception left a download function uncaught
    resp,          \* download_image: the HTTP response (header, body size)
    total_size,    \* download_image: total_size
    downloaded,    \* download_image: downloaded
    file,          \* download_image: bytes written to the open file
    filename,      \* download_image: filename
    url,           \* the URL string under classification
    classified,    \* main()'s dispatch on url
    youtube_id,    \* get_youtube_id(url)
    \* ---- history (observations of the run, not read by the program) ----
    failedStep,    \* the step of the current task that raised, if any
    taskId,        \* number of download button clicks so far
    attempts,      \* number of transfers started so far
    reports,       \* number of results returned so far
    trace,         \* the statuses the current task went through
    lateWrite,     \* progress was written after the task's result
    lastWrite,     \* the last two values the transfer wrote to progress
    observed,      \* the progress value the transfer last left
    startProgress, \* progress when the task was created
    lastHook,      \* the last progress-hook callback and its effect
    ordered,       \* every callback so far kept the byte counters ordered
    ncalls,        \* number of progress-hook callbacks in this task
    writes         \* download_image: the size of each f.write so far

vars == <<pc, kind, progress, progress_bar, result, uncaught, resp, total_size,
          downloaded, file, filename, url, classified, youtube_id, failedStep,
          taskId, attempts, reports, trace, lateWrite, lastWrite, observed,
          startProgress, lastHook, ordered, ncalls, writes>>

urlVars == <<url, classified, youtube_id>>
imageVars == <<resp, total_size, downloaded, file, filename, writes>>
hookVars == <<lastHook, ordered, ncalls>>

\* ------------------------------------------------------------- bounds

\* Download button clicks in one session.
MaxDownloads == 2
\* Largest byte counter the video backend reports.
MaxBytes == 2
\* Progress-hook callbacks per video download.
MaxCalls == 2
\* Largest response body (bytes delivered) of an image download.
MaxBody == 3
\* Chunk size handed to iter_content.  The source uses 1024 (line 130); the
\* loop's logic does not depend on the value, so the model counts in a
\* block small enough for bodies of MaxBody bytes to span several chunks.
BlockSize == 2

\* ------------------------------------------------------------- fractions

None == "none"

\* No result yet; no write by the transfer yet; no callback yet.
NoResult == [ok |-> FALSE, msg |-> <<>>]
NotApplied == [is |-> "none", val |-> <<>>]
NoResponse == [cl |-> [present |-> FALSE, numeric |-> TRUE, value |-> 0],
               n |-> 0, base |-> ""]

Abs(x) == IF x < 0 THEN -x ELSE x

RECURSIVE GCD(_, _)
GCD(a, b) == IF b = 0 THEN a ELSE GCD(b, a % b)

\* Python's true division a / b of two ints (b # 0), kept exact: a reduced
\* fraction with a positive denominator.
Div(a, b) ==
    LET g == GCD(Abs(a), Abs(b))
        s == IF b < 0 THEN -1 ELSE 1
    IN  [n |-> (s * a) \div g, d |-> Abs(b) \div g]

Zero == [n |-> 0, d |-> 1]
One == [n |-> 1, d |-> 1]

Leq(p, q) == p.n * q.d <= q.n * p.d

NoWriteYet == [count |-> 0, old |-> Zero, new |-> Zero]
NoCallback == [status |-> None, d |-> 0, has_total |-> FALSE, t |-> 0,
               before |-> Zero, after |-> Zero]

\* ------------------------------------------------------------- control

\* download_video with the try block opened only around extract_info.
TryScopeVideoNarrow == {"extract_info", "title"}

\* The steps of download_video inside its try block.
TryScopeVideo == {"YoutubeDL", "extract_info", "hook", "title"}

\* The steps of download_image inside its try block.
TryScopeImage == {"get", "raise_for_status", "int", "open", "content",
                  "iter_content", "write", "close"}

ErrorPrefix(k) ==
    IF k = "video" THEN "Error downloading video" ELSE "Error downloading image"

Goto(p) ==
    /\ pc' = p
    /\ UNCHANGED <<result, failedStep, uncaught, reports>>

\* return success, message
Return(ok, msg) ==
    /\ pc' = "returned"
    /\ result' = [ok |-> ok, msg |-> msg]
    /\ reports' = reports + 1
    /\ UNCHANGED <<failedStep, uncaught>>

\* An except clause that starts the download again instead of returning.
RaiseRetry(step) ==
    /\ failedStep' = step
    /\ pc' = "clicked"
    /\ UNCHANGED <<result, uncaught, reports>>

\* An exception raised by `step`: the except clause of the enclosing
\* function turns it into (False, message) when the step lies inside the
\* try block; otherwise it leaves the function.
Raise(step) ==
    /\ failedStep' = step
    /\ IF step \in (IF kind = "video" THEN TryScopeVideo ELSE TryScopeImage)
       THEN /\ pc' = "returned"
            /\ result' = [ok |-> FALSE, msg |-> <<ErrorPrefix(kind), step>>]
            /\ reports' = reports + 1
            /\ UNCHANGED uncaught
       ELSE /\ pc' = "crashed"
            /\ uncaught' = TRUE
            /\ UNCHANGED <<result, reports>>

\* A write of value v to st.session_state.progress by the transfer.
WriteProgress(v) ==
    /\ progress' = v
    /\ observed' = v
    /\ lastWrite' = [count |-> IF lastWrite.count = 0 THEN 1 ELSE 2,
                     old |-> lastWrite.new, new |-> v]

NoWrite == UNCHANGED <<progress, observed, lastWrite>>

\* ------------------------------------------------------------- main()

NewTask(k) ==
    /\ pc \in {"idle", "shown"}
    /\ taskId < MaxDownloads
    /\ taskId' = taskId + 1
    /\ kind' = k
    /\ progress_bar' = Zero
    /\ pc' = "clicked"
    /\ result' = NoResult
    /\ failedStep' = None
    /\ attempts' = 0
    /\ reports' = 0
    /\ lastWrite' = NoWriteYet
    /\ observed' = progress
    /\ startProgress' = progress
    /\ lastHook' = NoCallback
    /\ ordered' = TRUE
    /\ ncalls' = 0
    /\ resp' = NoResponse
    /\ total_size' = 0
    /\ downloaded' = 0
    /\ file' = <<>>
    /\ filename' = None
    /\ writes' = <<>>
    /\ UNCHANGED <<progress, uncaught, urlVars>>

\* if st.button("Download Video"): progress_bar = st.progress(0); ...
ClickDownloadVideo == NewTask("video")

\* if st.button("Download Image"): progress_bar = st.progress(0); ...
ClickDownloadImage == NewTask("image")

\* main() showing the session value, not 0, after a failure.
ShowResultKeepsProgress ==
    /\ pc = "returned"
    /\ progress_bar' = IF result.ok THEN One ELSE progress
    /\ pc' = "shown"
    /\ UNCHANGED <<kind, progress, result, uncaught, imageVars, urlVars,
                   failedStep, taskId, attempts, reports, lastWrite, observed,
                   startProgress, hookVars>>

\* success, message = download_...(...);
\* progress_bar.progress(1.0 if success else 0); st.success / st.error
ShowResult ==
    /\ pc = "returned"
    /\ progress_bar' = IF result.ok THEN One ELSE Zero
    /\ pc' = "shown"
    /\ UNCHANGED <<kind, progress, result, uncaught, imageVars, urlVars,
                   failedStep, taskId, attempts, reports, lastWrite, observed,
                   startProgress, hookVars>>

\* success, message = download_video(url, video_path)   (line 190)
\* success, message = download_image(url, image_path)   (line 207)
CallDownload ==
    /\ pc = "clicked"
    /\ attempts' = attempts + 1
    /\ Goto(IF kind = "video" THEN "v_enter" ELSE "i_enter")
    /\ NoWrite
    /\ UNCHANGED <<kind, progress_bar, imageVars, urlVars, taskId,
                   startProgress, hookVars>>

\* ------------------------------------------------------------- download_video

HookStatus == {"downloading", "finished", "error"}

\* The dicts the backend may hand to the progress hook: a status, the
\* downloaded_bytes counter (always there) and, when has_total, a
\* total_bytes entry.  The counters are whatever the backend reports: they
\* need not grow, and downloaded_bytes may pass total_bytes.
Callbacks ==
    {[status |-> s, d |-> d, has_total |-> TRUE, t |-> t] :
        s \in HookStatus, d \in 0 .. MaxBytes, t \in 0 .. MaxBytes}
    \cup {[status |-> s, d |-> d, has_total |-> FALSE, t |-> 0] :
        s \in HookStatus, d \in 0 .. MaxBytes}

\* with yt_dlp.YoutubeDL(ydl_opts) as ydl: st.session_state.progress = 0
VideoOpen ==
    /\ pc = "v_enter"
    /\ \/ /\ Raise("YoutubeDL")
          /\ UNCHANGED <<progress, observed>>
       \/ /\ progress' = Zero
          /\ observed' = Zero
          /\ Goto("v_extract")
    /\ UNCHANGED <<kind, progress_bar, imageVars, urlVars, taskId, attempts,
                   lastWrite, startProgress, hookVars>>

\* d['downloaded_bytes'] / d['total_bytes'] if 'total_bytes' in d else 0
HookValue(cb) == IF cb.has_total THEN Div(cb.d, cb.t) ELSE Zero

\* One call of the progress hook by the backend, from inside extract_info:
\* st.session_state.update(progress=...) if d['status'] == 'downloading'
\* else None
ProgressHook(cb) ==
    /\ pc = "v_extract"
    /\ ncalls < MaxCalls
    /\ ncalls' = ncalls + 1
    /\ IF cb.status = "downloading"
       THEN IF cb.has_total /\ cb.t = 0
            THEN \* ZeroDivisionError inside the hook
                 /\ Raise("hook")
                 /\ NoWrite
                 /\ UNCHANGED <<lastHook, ordered>>
            ELSE /\ WriteProgress(HookValue(cb))
                 /\ lastHook' = [status |-> cb.status, d |-> cb.d,
                                 has_total |-> cb.has_total, t |-> cb.t,
                                 before |-> progress, after |-> HookValue(cb)]
                 /\ ordered' = (/\ ordered
                                /\ cb.has_total => cb.d <= cb.t
                                /\ lastHook.status = "downloading" =>
                                      /\ cb.d >= lastHook.d
                                      /\ (cb.has_total /\ lastHook.has_total)
                                            => cb.t = lastHook.t)
                 /\ Goto("v_extract")
       ELSE /\ NoWrite
            /\ lastHook' = [status |-> cb.status, d |-> cb.d,
                            has_total |-> cb.has_total, t |-> cb.t,
                            before |-> progress, after |-> progress]
            /\ UNCHANGED ordered
            /\ Goto("v_extract")
    /\ UNCHANGED <<kind, progress_bar, imageVars, urlVars, taskId, attempts,
                   startProgress>>

\* info = ydl.extract_info(url, download=True) raises
ExtractFails ==
    /\ pc = "v_extract"
    /\ Raise("extract_info")
    /\ NoWrite
    /\ UNCHANGED <<kind, progress_bar, imageVars, urlVars, taskId, attempts,
                   startProgress, hookVars>>

\* info = ydl.extract_info(url, download=True) returns
ExtractReturns ==
    /\ pc = "v_extract"
    /\ Goto("v_title")
    /\ NoWrite
    /\ UNCHANGED <<kind, progress_bar, imageVars, urlVars, taskId, attempts,
                   startProgress, hookVars>>

\* return True, f"Successfully downloaded: {info['title']}"
VideoReturn ==
    /\ pc = "v_title"
    /\ \/ Raise("title")
       \/ Return(TRUE, <<"Successfully downloaded", "title">>)
    /\ NoWrite
    /\ UNCHANGED <<kind, progress_bar, imageVars, urlVars, taskId, attempts,
                   startProgress, hookVars>>

\* ------------------------------------------------------------- download_image

\* What the server may put in the Content-Length header.
ContentLengths ==
    {[present |-> FALSE, numeric |-> TRUE, value |-> 0],
     [present |-> TRUE, numeric |-> FALSE, value |-> 0]}
    \cup {[present |-> TRUE, numeric |-> TRUE, value |-> v] : v \in 0 .. MaxBody}

\* The basename of the URL's path: empty for a root path.
Basenames == {"", "photo.png"}

\* The response body as iter_content / response.content deliver it: n bytes,
\* each told apart from the others by its position.
Body(n) == [i \in 1 .. n |-> i]

\* response = requests.get(url, stream=True); response.raise_for_status()
ImageGet ==
    /\ pc = "i_enter"
    /\ \/ /\ Raise("get")
          /\ UNCHANGED resp
       \/ /\ Raise("raise_for_status")
          /\ UNCHANGED resp
       \/ /\ \E cl \in ContentLengths, n \in 0 .. MaxBody, b \in Basenames :
                resp' = [cl |-> cl, n |-> n, base |-> b]
          /\ Goto("i_name")
    /\ NoWrite
    /\ UNCHANGED <<kind, progress_bar, total_size, downloaded, file, filename,
                   writes, urlVars, taskId, attempts, startProgress, hookVars>>

\* filename = os.path.basename(urlparse(url).path)
\* if not filename: filename = f"image_{int(time.time())}.jpg"
ResolveFilename(base) == IF base = "" THEN "image_<time>.jpg" ELSE base

\* total_size = int(response.headers.get('content-length', 0))
ImagePrepare ==
    /\ pc = "i_name"
    /\ filename' = ResolveFilename(resp.base)
    /\ IF ~resp.cl.numeric
       THEN /\ Raise("int")
            /\ UNCHANGED total_size
       ELSE /\ total_size' = IF resp.cl.present THEN resp.cl.value ELSE 0
            /\ Goto("i_open")
    /\ NoWrite
    /\ UNCHANGED <<kind, progress_bar, resp, downloaded, file, writes, urlVars,
                   taskId, attempts, startProgress, hookVars>>

\* with open(filepath, 'wb') as f:
ImageOpen ==
    /\ pc = "i_open"
    /\ \/ /\ Raise("open")
          /\ UNCHANGED file
       \/ /\ file' = <<>>
          /\ Goto("i_body")
    /\ NoWrite
    /\ UNCHANGED <<kind, progress_bar, resp, total_size, downloaded, filename,
                   writes, urlVars, taskId, attempts, startProgress, hookVars>>

\* The no-length branch writing the body with more than one f.write.
ImageWriteAllInPieces ==
    /\ pc = "i_body"
    /\ total_size = 0
    /\ file' = file \o Body(resp.n)
    /\ writes' = writes \o <<0, resp.n>>
    /\ Goto("i_close")
    /\ NoWrite
    /\ UNCHANGED <<kind, progress_bar, resp, total_size, downloaded, filename,
                   urlVars, taskId, attempts, startProgress, hookVars>>

\* if total_size == 0: f.write(response.content)
ImageWriteAll ==
    /\ pc = "i_body"
    /\ total_size = 0
    /\ \/ /\ Raise("content")
          /\ UNCHANGED <<file, writes>>
       \/ /\ Raise("write")
          /\ UNCHANGED <<file, writes>>
       \/ /\ file' = file \o Body(resp.n)
          /\ writes' = Append(writes, resp.n)
          /\ Goto("i_close")
    /\ NoWrite
    /\ UNCHANGED <<kind, progress_bar, resp, total_size, downloaded, filename,
                   urlVars, taskId, attempts, startProgress, hookVars>>

\* iter_content handing out the start of the body again on every call.
ChunkRewound(lo, len) == [i \in 1 .. len |-> Body(resp.n)[i]]

\* The bytes of the body from position lo + 1 to lo + len.
Chunk(lo, len) == [i \in 1 .. len |-> Body(resp.n)[lo + i]]

\* for data in response.iter_content(block_size):
\*     downloaded += len(data); f.write(data)
\*     st.session_state.progress = downloaded / total_size
ImageChunk ==
    /\ pc = "i_body"
    /\ total_size # 0
    /\ \/ /\ Raise("iter_content")
          /\ NoWrite
          /\ UNCHANGED <<downloaded, file, writes>>
       \/ \E len \in 1 .. BlockSize :
             /\ downloaded + len <= resp.n
             /\ downloaded' = downloaded + len
             /\ \/ /\ Raise("write")
                   /\ NoWrite
                   /\ UNCHANGED <<file, writes>>
                \/ /\ file' = file \o Chunk(downloaded, len)
                   /\ writes' = Append(writes, len)
                   /\ WriteProgress(Div(downloaded + len, total_size))
                   /\ Goto("i_body")
    /\ UNCHANGED <<kind, progress_bar, resp, total_size, filename, urlVars,
                   taskId, attempts, startProgress, hookVars>>

\* iter_content is exhausted: the for loop ends
ImageLoopEnd ==
    /\ pc = "i_body"
    /\ total_size # 0
    /\ downloaded = resp.n
    /\ Goto("i_close")
    /\ NoWrite
    /\ UNCHANGED <<kind, progress_bar, imageVars, urlVars, taskId, attempts,
                   startProgress, hookVars>>

\* the with block closes f; return True, f"Successfully downloaded: {filename}"
ImageReturn ==
    /\ pc = "i_close"
    /\ \/ Raise("close")
       \/ Return(TRUE, <<"Successfully downloaded", filename>>)
    /\ NoWrite
    /\ UNCHANGED <<kind, progress_bar, imageVars, urlVars, taskId, attempts,
                   startProgress, hookVars>>

\* ------------------------------------------------------------- the session

Terminal == {"Succeeded", "Failed"}

\* The DownloadTask status the position of the script stands for.
Status ==
    CASE pc = "idle" -> "NoTask"
      [] pc = "clicked" -> "Pending"
      [] pc \in {"returned", "shown"} ->
            IF result.ok THEN "Succeeded" ELSE "Failed"
      [] pc = "crashed" -> "Crashed"
      [] OTHER -> "InProgress"

\* if 'progress' not in st.session_state: st.session_state.progress = 0
Init ==
    /\ pc = "idle"
    /\ kind = None
    /\ progress = Zero
    /\ progress_bar = None
    /\ result = NoResult
    /\ uncaught = FALSE
    /\ resp = NoResponse
    /\ total_size = 0
    /\ downloaded = 0
    /\ file = <<>>
    /\ filename = None
    /\ url = <<>>
    /\ classified = None
    /\ youtube_id = NotApplied
    /\ failedStep = None
    /\ taskId = 0
    /\ attempts = 0
    /\ reports = 0
    /\ trace = <<>>
    /\ lateWrite = FALSE
    /\ lastWrite = NoWriteYet
    /\ observed = Zero
    /\ startProgress = Zero
    /\ lastHook = NoCallback
    /\ ordered = TRUE
    /\ ncalls = 0
    /\ writes = <<>>

\* The observations of a step: the statuses the task passes through, and any
\* write to the progress value or the result after the task became terminal.
Observe ==
    /\ trace' = IF taskId' # taskId THEN <<Status'>>
                ELSE IF Status' # Status THEN Append(trace, Status')
                ELSE trace
    /\ lateWrite' = (\/ lateWrite
                     \/ /\ Status \in Terminal
                        /\ taskId' = taskId
                        /\ (progress' # progress \/ result' # result))

Next ==
    \/ ClickDownloadVideo /\ Observe
    \/ ClickDownloadImage /\ Observe
    \/ CallDownload /\ Observe
    \/ ShowResult /\ Observe
    \/ VideoOpen /\ Observe
    \/ \E cb \in Callbacks : ProgressHook(cb) /\ Observe
    \/ ExtractFails /\ Observe
    \/ ExtractReturns /\ Observe
    \/ VideoReturn /\ Observe
    \/ ImageGet /\ Observe
    \/ ImagePrepare /\ Observe
    \/ ImageOpen /\ Observe
    \/ ImageWriteAll /\ Observe
    \/ ImageChunk /\ Observe
    \/ ImageLoopEnd /\ Observe
    \/ ImageReturn /\ Observe

Spec == Init /\ [][Next]_vars

\* ------------------------------------------------------------- URLs

\* A URL string is a sequence of tokens.  A delimiter token is one
\* character; a word token is a run of scheme characters (letters, digits,
\* '.', '-', '+') that no concatenation of other tokens spells, so that
\* Python's `x in s` and `s.endswith(x)` on the string are token tests here.
MaxAuth == 2
MaxPath == 2

Delimiters == {":", "/", "?", "#", "@", "[", "=", "&"}
\* Word tokens that begin with an ASCII letter.
AlphaWords == {"https", "www.", "youtube.com", "youtu.be", "vimeo.com",
               "example.com", "watch", "abc", "v", "other"}
\* Word tokens that do not.
OtherWords == {".png", ".PNG", "1"}

\* str.lower()
Lower(tok) == IF tok = ".PNG" THEN ".png" ELSE tok

RECURSIVE SeqsUpTo(_, _)
SeqsUpTo(S, n) ==
    IF n = 0 THEN {<<>>}
    ELSE LET shorter == SeqsUpTo(S, n - 1)
         IN  shorter \cup {Append(q, x) : q \in shorter, x \in S}

Prefixes == {<<>>, <<"https", ":", "/", "/">>, <<"/", "/">>, <<"https", ":">>}
AuthTokens == {"www.", "youtube.com", "youtu.be", "vimeo.com", "example.com",
               "@", "["}
PathTokens == {"/", "watch", "abc", ".png", ".PNG", "youtu.be"}
Tails == {<<>>,
          <<"?", "v", "=", "abc">>,
          <<"?", "v", "=", "abc", "&", "other", "=", "1">>,
          <<"?", "other", "=", "1">>,
          <<"?", "v", "=", "&", "other", "=", "1">>,
          <<"#", ".png">>}

\* The URL strings the functions are applied to.
Urls ==
    {pre \o auth \o path \o tail :
        pre \in Prefixes, auth \in SeqsUpTo(AuthTokens, MaxAuth),
        path \in SeqsUpTo(PathTokens, MaxPath), tail \in Tails}

\* x in s
Contains(s, x) == \E i \in 1 .. Len(s) : s[i] = x

\* s.find(c) for any c of set cs, from position `from`: 0 when none.
FindAny(s, cs, from) ==
    LET hits == {i \in from .. Len(s) : s[i] \in cs}
    IN  IF hits = {} THEN 0 ELSE CHOOSE i \in hits : \A j \in hits : i <= j

\* s[from:]
Rest(s, from) == SubSeq(s, from, Len(s))

\* urllib.parse.urlsplit, as urlparse uses it: the scheme up to the first
\* ':' when what precedes it is a run of scheme characters starting with a
\* letter; after '//' the netloc up to the first of '/', '?', '#'; a netloc
\* with '[' and no ']' raises ValueError; then the fragment after the first
\* '#', the query after the first '?', and the path.
UrlParse(u) ==
    LET colon == FindAny(u, {":"}, 1)
        hasScheme == /\ colon > 1
                     /\ u[1] \in AlphaWords
                     /\ \A i \in 1 .. colon - 1 : u[i] \in AlphaWords \cup OtherWords
        u1 == IF hasScheme THEN Rest(u, colon + 1) ELSE u
        hasNetloc == Len(u1) >= 2 /\ u1[1] = "/" /\ u1[2] = "/"
        delim == FindAny(u1, {"/", "?", "#"}, 3)
        netloc == IF ~hasNetloc THEN <<>>
                  ELSE IF delim = 0 THEN Rest(u1, 3)
                  ELSE SubSeq(u1, 3, delim - 1)
        u2 == IF ~hasNetloc THEN u1
              ELSE IF delim = 0 THEN <<>>
              ELSE Rest(u1, delim)
        hash == FindAny(u2, {"#"}, 1)
        u3 == IF hash = 0 THEN u2 ELSE SubSeq(u2, 1, hash - 1)
        qm == FindAny(u3, {"?"}, 1)
        path == IF qm = 0 THEN u3 ELSE SubSeq(u3, 1, qm - 1)
        query == IF qm = 0 THEN <<>> ELSE Rest(u3, qm + 1)
    IN  [raises |-> Contains(netloc, "["), netloc |-> netloc, path |-> path,
         query |-> query]

video_domains == {"youtube.com", "youtu.be", "vimeo.com", "dailymotion.com"}
image_extensions == {".jpg", ".jpeg", ".png", ".gif", ".bmp", ".webp"}

\* any(domain in parsed_url.netloc for domain in video_domains)
is_video_url(u) ==
    \E dom \in video_domains : Contains(UrlParse(u).netloc, dom)

\* any(parsed_url.path.lower().endswith(ext) for ext in image_extensions)
is_image_url(u) ==
    LET path == UrlParse(u).path
    IN  /\ path # <<>>
        /\ Lower(path[Len(path)]) \in image_extensions

\* main(): if is_video_url(url): ... elif is_image_url(url): ... else: ...
\* (urlparse raising leaves both tests through main uncaught)
Dispatch(u) ==
    IF UrlParse(u).raises THEN "raised"
    ELSE IF is_video_url(u) THEN "Video"
    ELSE IF is_image_url(u) THEN "Image"
    ELSE "Unsupported"

\* s.split(sep): the pieces of s between the separators.
RECURSIVE Split(_, _)
Split(s, sep) ==
    LET i == FindAny(s, {sep}, 1)
    IN  IF i = 0 THEN <<s>>
        ELSE <<SubSeq(s, 1, i - 1)>> \o Split(Rest(s, i + 1), sep)

\* parse_qs(query).get(name, [None])[0]: the fields between '&', each split
\* at its first '='; a field without '=' or with an empty value is dropped;
\* the first value of the name, or None.
QueryGet(query, name) ==
    LET fields == Split(query, "&")
        hit(i) == LET eq == FindAny(fields[i], {"="}, 1)
                  IN  /\ eq > 0
                      /\ SubSeq(fields[i], 1, eq - 1) = name
                      /\ Rest(fields[i], eq + 1) # <<>>
        hits == {i \in 1 .. Len(fields) : hit(i)}
        first == CHOOSE i \in hits : \A j \in hits : i <= j
    IN  IF hits = {} THEN [is |-> "null", val |-> <<>>]
        ELSE [is |-> "value",
              val |-> Rest(fields[first], FindAny(fields[first], {"="}, 1) + 1)]

\* get_youtube_id(url)
get_youtube_id(u) ==
    IF Contains(u, "youtu.be")
    THEN LET parts == Split(u, "/")
         IN  [is |-> "value", val |-> parts[Len(parts)]]
    ELSE IF Contains(u, "youtube.com")
    THEN IF UrlParse(u).raises THEN [is |-> "raised", val |-> <<>>]
         ELSE QueryGet(UrlParse(u).query, <<"v">>)
    ELSE [is |-> "null", val |-> <<>>]

downloadVars == <<pc, kind, progress, progress_bar, result, uncaught, resp,
                  total_size, downloaded, file, filename, failedStep, taskId,
                  attempts, reports, trace, lateWrite, lastWrite, observed,
                  startProgress, lastHook, ordered, ncalls, writes>>

\* url = st.text_input("Enter URL:")
InitUrl ==
    /\ url \in Urls
    /\ classified = None
    /\ youtube_id = NotApplied
    /\ pc = "idle"
    /\ kind = None
    /\ progress = Zero
    /\ progress_bar = None
    /\ result = NoResult
    /\ uncaught = FALSE
    /\ resp = NoResponse
    /\ total_size = 0
    /\ downloaded = 0
    /\ file = <<>>
    /\ filename = None
    /\ failedStep = None
    /\ taskId = 0
    /\ attempts = 0
    /\ reports = 0
    /\ trace = <<>>
    /\ lateWrite = FALSE
    /\ lastWrite = NoWriteYet
    /\ observed = Zero
    /\ startProgress = Zero
    /\ lastHook = NoCallback
    /\ ordered = TRUE
    /\ ncalls = 0
    /\ writes = <<>>

\* main()'s classification of the URL
Classify ==
    /\ classified = None
    /\ classified' = Dispatch(url)
    /\ UNCHANGED <<url, youtube_id, downloadVars>>

\* youtube_id = get_youtube_id(url)
GetYoutubeId ==
    /\ youtube_id = NotApplied
    /\ youtube_id' = get_youtube_id(url)
    /\ UNCHANGED <<url, classified, downloadVars>>

NextUrl ==
    \/ Classify
    \/ GetYoutubeId

SpecUrl == InitUrl /\ [][NextUrl]_vars

\* ------------------------------------------------------------- properties

Finished == pc \in {"returned", "shown"}

\* C1: within one download, no value the transfer writes to the progress
\* value is smaller than the value it replaces (for a video, under a backend
\* whose byte counters never go back and stay within total_bytes).
ProgressNonDecreasing ==
    (lastWrite.count = 2 /\ (kind = "video" => ordered))
        => Leq(lastWrite.old, lastWrite.new)

\* C2, as claimed: at the terminal state progress is 1.0 iff the task
\* Succeeded, and after a failure it still is the last value observed during
\* the transfer.  Read either of the session value or of the progress bar.
TerminalProgressAsClaimed ==
    pc = "shown" =>
        \/ /\ (progress = One) <=> result.ok
           /\ ~result.ok => progress = observed
        \/ /\ (progress_bar = One) <=> result.ok
           /\ ~result.ok => progress_bar = observed

\* C2, amended: once the result is shown the progress bar is 1.0 iff the
\* task Succeeded and is set to 0 when it Failed; the session progress value
\* is what the transfer last left, on either outcome.
TerminalProgressAmended ==
    pc = "shown" =>
        /\ (progress_bar = One) <=> result.ok
        /\ ~result.ok => progress_bar = Zero
        /\ progress = observed

\* C2 witness: a failed download shown after the transfer had moved the
\* progress value part of the way.
TerminalProgressWitness ==
    /\ pc = "shown"
    /\ ~result.ok
    /\ progress = Div(1, 2)
    /\ progress_bar = Zero

\* C3: no exception leaves a download function; a failed step yields the
\* (False, "Error ...") result at once, the error message is there iff the
\* result is a failure, and success is returned only when no step failed.
FailuresAreReported ==
    /\ ~uncaught
    /\ pc # "crashed"
    /\ failedStep # None => Finished
    /\ Finished =>
          /\ result.ok <=> failedStep = None
          /\ (result.msg[1] = ErrorPrefix(kind)) <=> ~result.ok
          /\ ~result.ok => result.msg = <<ErrorPrefix(kind), failedStep>>
          /\ result.ok => result.msg[1] = "Successfully downloaded"

\* C3 witness: an exception raised inside the progress hook came back as a
\* failure result.
FailuresAreReportedWitness ==
    /\ pc = "returned"
    /\ failedStep = "hook"
    /\ ~result.ok

\* C4: a task goes Pending, InProgress, then Succeeded or Failed, and stays
\* there; one click makes one call of the download function and one result;
\* nothing writes the progress value or the result after the result.
Lifecycle ==
    /\ trace \in {<<>>, <<"Pending">>, <<"Pending", "InProgress">>,
                  <<"Pending", "InProgress", "Succeeded">>,
                  <<"Pending", "InProgress", "Failed">>}
    /\ attempts <= 1
    /\ reports <= 1
    /\ Status \in Terminal => attempts = 1 /\ reports = 1
    /\ ~lateWrite

\* C4 witness: a second task of the session failed and its result is shown.
LifecycleWitness ==
    /\ pc = "shown"
    /\ taskId = 2
    /\ trace = <<"Pending", "InProgress", "Failed">>
    /\ failedStep = "iter_content"

ExactLength ==
    /\ kind = "image"
    /\ pc \in {"i_open", "i_body", "i_close", "returned", "shown"}
    /\ resp.cl.present
    /\ resp.cl.numeric
    /\ resp.n > 0
    /\ resp.cl.value = resp.n

\* C5: an image served with Content-Length n = its n > 0 body bytes is
\* written in chunks of at most the block size, progress is bytes-written / n
\* after each chunk, and when no step fails the download Succeeds with
\* progress exactly 1.0 and the file equal to the body, named after the
\* basename of the URL path.
ImageWithLength ==
    ExactLength =>
        /\ total_size = resp.n
        /\ \A i \in 1 .. Len(writes) : writes[i] \in 1 .. BlockSize
        /\ file = SubSeq(Body(resp.n), 1, Len(file))
        /\ Len(writes) > 0 => progress = Div(Len(file), resp.n)
        /\ pc \in {"i_body", "i_close"} => downloaded = Len(file)
        /\ (Finished /\ failedStep = None) => result.ok
        /\ (Finished /\ result.ok) =>
              /\ progress = One
              /\ file = Body(resp.n)
              /\ resp.base # "" => filename = resp.base
              /\ result.msg = <<"Successfully downloaded", filename>>

\* C5 witness: a body of several chunks arrived in full.
ImageWithLengthWitness ==
    /\ ExactLength
    /\ pc = "shown"
    /\ result.ok
    /\ resp.n = MaxBody
    /\ Len(writes) >= 2
    /\ resp.base = "photo.png"

NoLength ==
    /\ kind = "image"
    /\ pc \in {"i_open", "i_body", "i_close", "returned", "shown"}
    /\ resp.cl.numeric
    /\ total_size = 0

HookFrameEffect ==
    lastHook.status # None =>
        lastHook.after =
            IF lastHook.status = "downloading" /\ lastHook.has_total
            THEN Div(lastHook.d, lastHook.t)
            ELSE lastHook.before

\* C10: the progress value always lies in [0, 1] (for a video, under a
\* backend whose byte counters stay within total_bytes).
ProgressInUnitInterval ==
    (kind = "video" => ordered) => (Leq(Zero, progress) /\ Leq(progress, One))

\* The host component of the URL: the netloc after its last '@'.
Host(u) ==
    LET netloc == UrlParse(u).netloc
        at == {i \in 1 .. Len(netloc) : netloc[i] = "@"}
        last == IF at = {} THEN 0 ELSE CHOOSE i \in at : \A j \in at : j <= i
    IN  Rest(netloc, last + 1)

\* C7: classification never raises and gives exactly one kind: Video iff the
\* host contains an allowlisted video domain, else Image iff the path ends
\* with an allowlisted extension (case-insensitively), else Unsupported.
ClassificationTotal ==
    classified # None =>
        /\ classified \in {"Video", "Image", "Unsupported"}
        /\ classified = "Video" <=>
              \E dom \in video_domains : Contains(Host(url), dom)
        /\ classified = "Image" <=>
              /\ ~\E dom \in video_domains : Contains(Host(url), dom)
              /\ UrlParse(url).path # <<>>
              /\ Lower(UrlParse(url).path[Len(UrlParse(url).path)])
                    \in image_extensions

ShortLink(id) == <<"https", ":", "/", "/", "youtu.be", "/">> \o id
Canonical(id) ==
    <<"https", ":", "/", "/", "www.", "youtube.com", "/", "watch", "?", "v", "=">>
        \o id \o <<"&", "other", "=", "1">>
CanonicalNoV ==
    <<"https", ":", "/", "/", "www.", "youtube.com", "/", "watch", "?",
      "other", "=", "1">>

\* A URL of another site: https://, then a host that urlparse accepts and
\* that names neither the short-link domain nor the canonical one.
OtherSite(u) ==
    /\ Len(u) > 4
    /\ SubSeq(u, 1, 4) = <<"https", ":", "/", "/">>
    /\ ~UrlParse(u).raises
    /\ Host(u) # <<>>
    /\ ~Contains(Host(u), "youtu.be")
    /\ ~Contains(Host(u), "youtube.com")

\* C8: get_youtube_id returns {id} for https://youtu.be/{id} and for
\* https://www.youtube.com/watch?v={id}&other=1, null for the canonical URL
\* without v, and null, without raising, for every URL whose domain is
\* neither the short-link nor the canonical one.
YoutubeIdAsSpecified ==
    youtube_id # NotApplied =>
        /\ url = ShortLink(<<"abc">>) =>
              youtube_id = [is |-> "value", val |-> <<"abc">>]
        /\ url = Canonical(<<"abc">>) =>
              youtube_id = [is |-> "value", val |-> <<"abc">>]
        /\ url = CanonicalNoV => youtube_id.is = "null"
        /\ OtherSite(url) => youtube_id.is = "null"

====
